---- MODULE Spec2Model ----
(***************************************************************************)
(* djbsort-rs: constant-time sorting of fixed-width unsigned integers.     *)
(*                                                                         *)
(* src/src/lib.rs holds three macro-generated layers, each instantiated    *)
(* for u8, u16, u32 and u64:                                               *)
(*   gt_mask    branchless greater-than mask            (lines 85-104)     *)
(*   minmax_at, minmax   branchless conditional swap    (lines 53-79)      *)
(*   ct_sort    Batcher's odd-even merge network        (lines 5-46)       *)
(*                                                                         *)
(* An element is the tuple of its bytes, least significant first: bits/8   *)
(* numbers in 0..255.  That keeps every width exact (2^64 does not fit the *)
(* model checker's integers) and makes the wrapping arithmetic of gt_mask  *)
(* a ripple of borrows over the bytes.  A slice is a function from         *)
(* 0..len-1 to elements, indexed as in the source.                         *)
(*                                                                         *)
(* ct_sort is modelled one loop step at a time.  The program around it is  *)
(* the one the tests are (lines 112-166): build a slice, call ct_sort,     *)
(* look at the result; here ct_sort is then called a second time on a      *)
(* slice of the same length, so that two calls can be compared.            *)
(***************************************************************************)
EXTENDS Integers, Sequences, FiniteSets, TLC

\* ------------------------------------------------------------------ bounds

\* Longest slice sorted.
MaxLen == 5

\* Number of distinct element values a slice is drawn from.
NumVals == 3

\* The comparator alone is run on every u8, and on the wider elements whose
\* low byte, middle bytes and high byte are each within GtEdge of 0x00, 0x80
\* or 0xff.
GtEdge == 1

\* The conditional swap alone is run on every slice of this length.
SwapLen == 3

\* --------------------------------------------------------------- elements

\* The instantiations with one for u128 added.
WidthsWithU128 == {8, 16, 32, 64, 128}

\* The element types the three macros are instantiated for, by width:
\* lines 43-46, 76-79 and 101-104.
Widths == {8, 16, 32, 64}

\* x & y on natural numbers.
RECURSIVE BitAnd(_, _)
BitAnd(x, y) ==
    IF x = 0 \/ y = 0 THEN 0
    ELSE (x % 2) * (y % 2) + 2 * BitAnd(x \div 2, y \div 2)

\* x & y for every pair of bytes.
AndTable == [x \in 0..255 |-> [y \in 0..255 |-> BitAnd(x, y)]]

\* The number of bytes of an element of width w.
Limbs(w) == w \div 8

\* The width of an element, in bytes.
Width(x) == Cardinality(DOMAIN x)

\* The element of width w whose value is the (small) natural number n.
FromNat(n, w) ==
    [k \in 1..Limbs(w) |-> IF k > 3 THEN 0 ELSE (n \div (256 ^ (k - 1))) % 256]

Zero(w) == FromNat(0, w)

\* x & y, x ^ y, x | y, !x, byte by byte
BvAnd(x, y) == [k \in DOMAIN x |-> AndTable[x[k]][y[k]]]

BvXor(x, y) == [k \in DOMAIN x |-> x[k] + y[k] - 2 * AndTable[x[k]][y[k]]]

BvOr(x, y) == [k \in DOMAIN x |-> x[k] + y[k] - AndTable[x[k]][y[k]]]

BvNot(x) == [k \in DOMAIN x |-> 255 - x[k]]

\* Bytes k.. of x - y - borrow, a ripple of borrows from the low byte up; the
\* borrow out of the top byte is dropped, which is the wrap modulo 2^bits.
RECURSIVE SubFrom(_, _, _, _)
SubFrom(x, y, k, borrow) ==
    IF k \notin DOMAIN x THEN <<>>
    ELSE LET d == x[k] - y[k] - borrow
         IN  <<(d + 256) % 256>> \o SubFrom(x, y, k + 1, IF d < 0 THEN 1 ELSE 0)

\* x.wrapping_sub(y)
wrapping_sub(x, y) == SubFrom(x, y, 1, 0)

\* x.wrapping_neg(): 0 - x modulo 2^bits
wrapping_neg(x) == wrapping_sub([k \in DOMAIN x |-> 0], x)

\* x >> s on an unsigned type: byte k of the result takes the high bits of
\* byte k + s/8 and the low bits of the byte above it; zeros come in at the top.
Shr(x, s) ==
    LET d == s \div 8
        m == s % 8
    IN  [k \in DOMAIN x |->
            (IF k + d \in DOMAIN x THEN x[k + d] \div (2 ^ m) ELSE 0)
          + (IF k + d + 1 \in DOMAIN x THEN (x[k + d + 1] * (2 ^ (8 - m))) % 256 ELSE 0)]

\* Unsigned order on elements, most significant byte first.
RECURSIVE GtFrom(_, _, _)
GtFrom(x, y, k) ==
    IF k = 0 THEN FALSE
    ELSE IF x[k] # y[k] THEN x[k] > y[k]
    ELSE GtFrom(x, y, k - 1)

\* x > y
BvGt(x, y) == GtFrom(x, y, Width(x))

\* The all-ones element of the width of x, and its zero.
OnesLike(x) == [k \in DOMAIN x |-> 255]

ZeroLike(x) == [k \in DOMAIN x |-> 0]

\* -------------------------------------------------------------- the state

VARIABLES
    bits,        \* width of the element type: the $t / $bits of the macros
    seq,         \* self: the slice, a function on 0..len-1
    pc,          \* where the program is (see Next)
    t,           \* the successors(1, *2) iterator of line 11
    top,         \* its last value below len; 0 stands for None
    p,           \* line 15
    i,           \* loop index of line 18 or of line 26; i of minmax_at
    j,           \* j of the latest minmax_at or minmax call
    q,           \* line 25
    offset,      \* the fold accumulator of line 25
    r,           \* line 31
    a,           \* the fold accumulator of line 31; a of minmax
    lhs,         \* self of the latest gt_mask call
    rhs,         \* other of the latest gt_mask call
    mask,        \* what that call returned
    input,       \* the slice as it was when the running call began
    call,        \* 1 or 2: which call of ct_sort this is
    firstOut,    \* the slice the first call returned
    firstTrace,  \* the comparator trace of the first call
    firstSteps,  \* the number of steps the first call took
    trace,       \* index pairs <<i, j>> compared so far in this call
    steps,       \* loop steps taken so far in this call
    rs,          \* the r of every minmax of the fold in progress
    folds        \* <<p, q, i, rs>> of every write-back of line 28 in this call

vars ==
    <<bits, seq, pc, t, top, p, i, j, q, offset, r, a, lhs, rhs, mask, input,
      call, firstOut, firstTrace, firstSteps, trace, steps, rs, folds>>

\* self.len()
len == Cardinality(DOMAIN seq)

\* Whether self[k] is inside the slice; outside it the index panics.
InBounds(k) == k \in DOMAIN seq

\* Element value number k of width w: 0, MAX, 1, MAX - 1, 2, ...
Val(k, w) ==
    IF k % 2 = 0 THEN FromNat(k \div 2, w) ELSE BvNot(FromNat(k \div 2, w))

Vals(w) == {Val(k, w) : k \in 0..(NumVals - 1)}

\* Every slice of length n of elements of width w.
Slices(n, w) == [0..(n - 1) -> Vals(w)]

\* ------------------------------------------------------------- comparator

\* A comparator that leaves out line 92, result |= other ^ self.
gt_mask_no_or(self, other) ==
    LET r1 == wrapping_sub(other, self)
        r2 == BvXor(r1, self)
        r4 == BvXor(r2, other)
        r5 == Shr(r4, bits - 1)
    IN  wrapping_neg(r5)

\* gt_mask, lines 89-96: all ones when self > other, else zero.
gt_mask(self, other) ==
    LET r1 == wrapping_sub(other, self)
        r2 == BvXor(r1, self)
        r3 == BvOr(r2, BvXor(other, self))
        r4 == BvXor(r3, other)
        r5 == Shr(r4, bits - 1)
    IN  wrapping_neg(r5)

\* ------------------------------------------------------- conditional swap

\* A minmax_at whose two stores take each other's operand.
minmax_at_crossed(s, ii, jj) ==
    LET x == s[ii]
        y == s[jj]
        swap_operator == BvAnd(BvXor(x, y), gt_mask(x, y))
        s1 == [s EXCEPT ![ii] = BvXor(y, swap_operator)]
    IN  [s1 EXCEPT ![jj] = BvXor(x, swap_operator)]

\* minmax_at, lines 57-63: the slice after self.minmax_at(i, j).
minmax_at(s, ii, jj) ==
    LET x == s[ii]
        y == s[jj]
        swap_operator == BvAnd(BvXor(x, y), gt_mask(x, y))
        s1 == [s EXCEPT ![ii] = BvXor(x, swap_operator)]
    IN  [s1 EXCEPT ![jj] = BvXor(y, swap_operator)]

\* A minmax that returns a as it was given.
minmax_keeps_a(s, x, jj) ==
    LET y == s[jj]
        swap_operator == BvAnd(BvXor(x, y), gt_mask(x, y))
    IN  <<[s EXCEPT ![jj] = BvXor(y, swap_operator)], x>>

\* minmax, lines 66-71: <<the slice after self.minmax(x, j), the value returned>>.
minmax(s, x, jj) ==
    LET y == s[jj]
        swap_operator == BvAnd(BvXor(x, y), gt_mask(x, y))
    IN  <<[s EXCEPT ![jj] = BvXor(y, swap_operator)], BvXor(x, swap_operator)>>

\* ---------------------------------------------------- the loops of ct_sort

\* An iterator that does not double.
checked_mul2_same(tt) == tt

\* t.checked_mul(2), line 11.  It is None only at t >= 2^63, above any
\* slice length.
checked_mul2(tt) == 2 * tt

\* x.wrapping_shr(1), lines 16, 23 and 29
wrapping_shr1(x) == x \div 2

\* take_while(|t| *t < self.len()), line 12
TopTake(tt) == tt < len

\* take_while(|p| *p > 0), line 16
PTake(pp) == pp > 0

\* A first pass over the whole slice.
FirstEndLen(pp) == len

\* self.len() - p, line 18.  The subtraction overflows when p > len.
FirstEnd(pp) == len - pp

\* The test inverted.
SelectedInverted(ii, pp) == BitAnd(ii, pp) # 0

\* The test skipping a pair of equal elements.
SelectedUnequal(ii, pp) == BitAnd(ii, pp) = 0 /\ seq[ii] # seq[ii + pp]

\* i & p == 0, lines 19 and 27
Selected(ii, pp) == BitAnd(ii, pp) = 0

\* A q loop that stops one value early.
QTakeEarly(qq, pp) == qq > 2 * pp

\* take_while(|q| *q > p), line 24
QTake(qq, pp) == qq > pp

\* self.len() - q, line 26.  The subtraction overflows when q > len.
ScanEnd(qq) == len - qq

\* A fold over q that does not carry the offset on.
NextOffsetZero(qq) == 0

\* self.len() - q, line 34: what the fold over q carries to the next q.
NextOffset(qq) == len - qq

\* take_while(|r| *r > p), line 30
RTake(rr, pp) == rr > pp

\* A panic: an index outside the slice, or usize subtraction overflowing
\* (a panic where overflow is checked; where it wraps, the range runs far
\* beyond the slice and the first index it produces panics).
Panic ==
    /\ pc' = "panic"
    /\ UNCHANGED <<bits, seq, t, top, p, i, j, q, offset, r, a, lhs, rhs, mask,
                   input, call, firstOut, firstTrace, firstSteps, trace, steps,
                   rs, folds>>

\* Line 11: the iterator starts at Some(1), nothing taken yet.
Call ==
    /\ pc = "call"
    /\ t' = 1
    /\ top' = 0
    /\ pc' = "top"
    /\ steps' = steps + 1
    /\ UNCHANGED <<bits, seq, p, i, j, q, offset, r, a, lhs, rhs, mask, input,
                   call, firstOut, firstTrace, firstSteps, trace, rs, folds>>

\* Lines 11-13: one more power of two below len; last() keeps it.
TopNext ==
    /\ pc = "top"
    /\ TopTake(t)
    /\ top' = t
    /\ t' = checked_mul2(t)
    /\ steps' = steps + 1
    /\ UNCHANGED <<bits, seq, pc, p, i, j, q, offset, r, a, lhs, rhs, mask,
                   input, call, firstOut, firstTrace, firstSteps, trace, rs,
                   folds>>

\* Lines 11-15: the iterator ends.  None: nothing to do (len < 2).
\* Some(top): the p loop starts at top.
TopLast ==
    /\ pc = "top"
    /\ ~TopTake(t)
    /\ IF top = 0
       THEN pc' = "done" /\ p' = p
       ELSE pc' = "p" /\ p' = top
    /\ steps' = steps + 1
    /\ UNCHANGED <<bits, seq, t, top, i, j, q, offset, r, a, lhs, rhs, mask,
                   input, call, firstOut, firstTrace, firstSteps, trace, rs,
                   folds>>

\* Lines 16-18: p is taken; the range 0..(len - p) is built.
PEnter ==
    /\ pc = "p"
    /\ PTake(p)
    /\ IF p > len
       THEN Panic
       ELSE /\ i' = 0
            /\ pc' = "first"
            /\ steps' = steps + 1
            /\ UNCHANGED <<bits, seq, t, top, p, j, q, offset, r, a, lhs, rhs, mask,
                           input, call, firstOut, firstTrace, firstSteps, trace, rs,
                           folds>>

\* Line 16: p reached 0, ct_sort returns.
PExit ==
    /\ pc = "p"
    /\ ~PTake(p)
    /\ pc' = "done"
    /\ steps' = steps + 1
    /\ UNCHANGED <<bits, seq, t, top, p, i, j, q, offset, r, a, lhs, rhs, mask,
                   input, call, firstOut, firstTrace, firstSteps, trace, rs,
                   folds>>

\* Lines 18-20: self.minmax_at(i, i + p).
FirstHit ==
    /\ pc = "first"
    /\ i < FirstEnd(p)
    /\ Selected(i, p)
    /\ IF InBounds(i) /\ InBounds(i + p)
       THEN /\ seq' = minmax_at(seq, i, i + p)
            /\ j' = i + p
            /\ lhs' = seq[i]
            /\ rhs' = seq[i + p]
            /\ mask' = gt_mask(seq[i], seq[i + p])
            /\ trace' = Append(trace, <<i, i + p>>)
            /\ i' = i + 1
            /\ steps' = steps + 1
            /\ UNCHANGED <<bits, pc, t, top, p, q, offset, r, a, input, call, firstOut,
                           firstTrace, firstSteps, rs, folds>>
       ELSE Panic

\* Lines 18-19: i & p != 0.
FirstSkip ==
    /\ pc = "first"
    /\ i < FirstEnd(p)
    /\ ~Selected(i, p)
    /\ i' = i + 1
    /\ steps' = steps + 1
    /\ UNCHANGED <<bits, seq, pc, t, top, p, j, q, offset, r, a, lhs, rhs, mask,
                   input, call, firstOut, firstTrace, firstSteps, trace, rs,
                   folds>>

\* Lines 18, 23-25: the first pass is over; q starts at top, offset at 0.
FirstDone ==
    /\ pc = "first"
    /\ ~(i < FirstEnd(p))
    /\ q' = top
    /\ offset' = 0
    /\ pc' = "q"
    /\ steps' = steps + 1
    /\ UNCHANGED <<bits, seq, t, top, p, i, j, r, a, lhs, rhs, mask, input,
                   call, firstOut, firstTrace, firstSteps, trace, rs, folds>>

\* Lines 24-26: q is taken; the range offset..(len - q) is built.
QEnter ==
    /\ pc = "q"
    /\ QTake(q, p)
    /\ IF q > len
       THEN Panic
       ELSE /\ i' = offset
            /\ pc' = "scan"
            /\ steps' = steps + 1
            /\ UNCHANGED <<bits, seq, t, top, p, j, q, offset, r, a, lhs, rhs, mask,
                           input, call, firstOut, firstTrace, firstSteps, trace, rs,
                           folds>>

\* Lines 24, 16: q reached p; the next p is p >> 1.
QExit ==
    /\ pc = "q"
    /\ ~QTake(q, p)
    /\ p' = wrapping_shr1(p)
    /\ pc' = "p"
    /\ steps' = steps + 1
    /\ UNCHANGED <<bits, seq, t, top, i, j, q, offset, r, a, lhs, rhs, mask,
                   input, call, firstOut, firstTrace, firstSteps, trace, rs,
                   folds>>

\* Lines 26-31: the fold over r starts from self[i + p] and r = q.
ScanHit ==
    /\ pc = "scan"
    /\ i < ScanEnd(q)
    /\ Selected(i, p)
    /\ IF InBounds(i + p)
       THEN /\ a' = seq[i + p]
            /\ r' = q
            /\ rs' = <<>>
            /\ pc' = "fold"
            /\ steps' = steps + 1
            /\ UNCHANGED <<bits, seq, t, top, p, i, j, q, offset, lhs, rhs, mask, input,
                           call, firstOut, firstTrace, firstSteps, trace, folds>>
       ELSE Panic

\* Lines 26-27: i & p != 0.
ScanSkip ==
    /\ pc = "scan"
    /\ i < ScanEnd(q)
    /\ ~Selected(i, p)
    /\ i' = i + 1
    /\ steps' = steps + 1
    /\ UNCHANGED <<bits, seq, pc, t, top, p, j, q, offset, r, a, lhs, rhs, mask,
                   input, call, firstOut, firstTrace, firstSteps, trace, rs,
                   folds>>

\* Lines 26, 34, 23: the scan is over; the fold over q carries len - q on
\* as the next offset, and the next q is q >> 1.
ScanDone ==
    /\ pc = "scan"
    /\ ~(i < ScanEnd(q))
    /\ offset' = NextOffset(q)
    /\ q' = wrapping_shr1(q)
    /\ pc' = "q"
    /\ steps' = steps + 1
    /\ UNCHANGED <<bits, seq, t, top, p, i, j, r, a, lhs, rhs, mask, input,
                   call, firstOut, firstTrace, firstSteps, trace, rs, folds>>

\* Lines 29-31: a = self.minmax(a, i + r); the next r is r >> 1.
FoldStep ==
    /\ pc = "fold"
    /\ RTake(r, p)
    /\ IF InBounds(i + r)
       THEN /\ LET res == minmax(seq, a, i + r)
               IN  seq' = res[1] /\ a' = res[2]
            /\ j' = i + r
            /\ lhs' = a
            /\ rhs' = seq[i + r]
            /\ mask' = gt_mask(a, seq[i + r])
            /\ trace' = Append(trace, <<i + p, i + r>>)
            /\ rs' = Append(rs, r)
            /\ r' = wrapping_shr1(r)
            /\ steps' = steps + 1
            /\ UNCHANGED <<bits, pc, t, top, p, i, q, offset, input, call, firstOut,
                           firstTrace, firstSteps, folds>>
       ELSE Panic

\* Lines 28, 30: r reached p; the folded value is stored in self[i + p].
FoldDone ==
    /\ pc = "fold"
    /\ ~RTake(r, p)
    /\ IF InBounds(i + p)
       THEN /\ seq' = [seq EXCEPT ![i + p] = a]
            /\ folds' = Append(folds, <<p, q, i, rs>>)
            /\ i' = i + 1
            /\ pc' = "scan"
            /\ steps' = steps + 1
            /\ UNCHANGED <<bits, t, top, p, j, q, offset, r, a, lhs, rhs, mask, input,
                           call, firstOut, firstTrace, firstSteps, trace, rs>>
       ELSE Panic

\* ------------------------------------------------------------ the program

\* The slices the second call is made on: the one the first call returned,
\* and one of the same length whose elements are all zero.
SecondInputs == {seq, [k \in DOMAIN seq |-> Zero(bits)]}

\* Lines 119-120 (a fresh slice, then vec.ct_sort()), for a second call on a
\* slice as long as the first.
SecondCall ==
    /\ pc = "done"
    /\ call = 1
    /\ \E s \in SecondInputs :
          /\ seq' = s
          /\ input' = s
    /\ firstOut' = seq
    /\ firstTrace' = trace
    /\ firstSteps' = steps
    /\ call' = 2
    /\ trace' = <<>>
    /\ steps' = 0
    /\ folds' = <<>>
    /\ rs' = <<>>
    /\ pc' = "call"
    /\ UNCHANGED <<bits, t, top, p, i, j, q, offset, r, a, lhs, rhs, mask>>

\* The locals of ct_sort before it runs, and the records of what ran.
Fresh ==
    /\ t = 0 /\ top = 0 /\ p = 0 /\ q = 0 /\ offset = 0 /\ r = 0
    /\ call = 1
    /\ firstOut = <<>>
    /\ firstTrace = <<>>
    /\ firstSteps = 0
    /\ trace = <<>>
    /\ steps = 0
    /\ rs = <<>>
    /\ folds = <<>>

\* Lines 114-119: a slice of any length up to MaxLen, of any element type.
Init ==
    /\ bits \in Widths
    /\ \E n \in 0..MaxLen : seq \in Slices(n, bits)
    /\ input = seq
    /\ pc = "call"
    /\ i = 0 /\ j = 0
    /\ a = Zero(bits) /\ lhs = Zero(bits) /\ rhs = Zero(bits) /\ mask = Zero(bits)
    /\ Fresh

Next ==
    \/ Call \/ TopNext \/ TopLast
    \/ PEnter \/ PExit
    \/ FirstHit \/ FirstSkip \/ FirstDone
    \/ QEnter \/ QExit
    \/ ScanHit \/ ScanSkip \/ ScanDone
    \/ FoldStep \/ FoldDone
    \/ SecondCall

\* Two calls of ct_sort, one after the other.
Spec == Init /\ [][Next]_vars

\* The same program on u8 slices of the values 0 and 255, of any length up to
\* MaxLen.
InitFair ==
    /\ bits = 8
    /\ \E n \in 0..MaxLen : seq \in [0..(n - 1) -> {FromNat(0, 8), FromNat(255, 8)}]
    /\ input = seq
    /\ pc = "call"
    /\ i = 0 /\ j = 0
    /\ a = Zero(bits) /\ lhs = Zero(bits) /\ rhs = Zero(bits) /\ mask = Zero(bits)
    /\ Fresh

\* ct_sort is sequential code that never waits: a step that can be taken is
\* taken.
FairSpec == InitFair /\ [][Next]_vars /\ WF_vars(Next)

\* --------------------------------------------------- the comparator alone

\* Bytes within GtEdge of 0x00, of 0x80 and of 0xff.
EdgeBytes ==
    (0..(GtEdge - 1)) \cup ((128 - GtEdge)..(127 + GtEdge)) \cup ((256 - GtEdge)..255)

\* Lines 170-171, 181-182, ...: the operands the comparator is run on.  For u8
\* every value; for the wider types the elements <<low, mid, ..., mid, high>>.
GtOperands(w) ==
    IF w = 8 THEN [1..1 -> 0..255]
    ELSE {[k \in 1..Limbs(w) |-> IF k = 1 THEN e[1] ELSE IF k = Limbs(w) THEN e[3] ELSE e[2]] :
             e \in EdgeBytes \X EdgeBytes \X EdgeBytes}

InitGt ==
    /\ bits \in Widths
    /\ lhs \in GtOperands(bits)
    /\ rhs \in GtOperands(bits)
    /\ mask = Zero(bits)
    /\ a = Zero(bits)
    /\ seq = <<>>
    /\ input = <<>>
    /\ pc = "gt"
    /\ i = 0 /\ j = 0
    /\ Fresh

\* Lines 172, 183, ...: lhs.gt_mask(rhs).
GtCall ==
    /\ pc = "gt"
    /\ mask' = gt_mask(lhs, rhs)
    /\ pc' = "gt_done"
    /\ UNCHANGED <<bits, seq, t, top, p, i, j, q, offset, r, a, lhs, rhs, input,
                   call, firstOut, firstTrace, firstSteps, trace, steps, rs,
                   folds>>

SpecGt == InitGt /\ [][GtCall]_vars

\* --------------------------------------------- the conditional swap alone

\* A slice of SwapLen elements, two distinct indices into it, and a value.
InitSwap ==
    /\ bits \in Widths
    /\ seq \in Slices(SwapLen, bits)
    /\ input = seq
    /\ i \in DOMAIN seq
    /\ j \in DOMAIN seq \ {i}
    /\ a \in Vals(bits)
    /\ lhs = Zero(bits) /\ rhs = Zero(bits) /\ mask = Zero(bits)
    /\ pc = "swap"
    /\ Fresh

\* self.minmax_at(i, j)
SwapAt ==
    /\ pc = "swap"
    /\ seq' = minmax_at(seq, i, j)
    /\ lhs' = seq[i]
    /\ rhs' = seq[j]
    /\ mask' = gt_mask(seq[i], seq[j])
    /\ pc' = "swapped_at"
    /\ UNCHANGED <<bits, t, top, p, i, j, q, offset, r, a, input, call,
                   firstOut, firstTrace, firstSteps, trace, steps, rs, folds>>

\* a = self.minmax(a, j)
SwapValue ==
    /\ pc = "swap"
    /\ LET res == minmax(seq, a, j)
       IN  seq' = res[1] /\ a' = res[2]
    /\ lhs' = a
    /\ rhs' = seq[j]
    /\ mask' = gt_mask(a, seq[j])
    /\ pc' = "swapped_value"
    /\ UNCHANGED <<bits, t, top, p, i, j, q, offset, r, input, call, firstOut,
                   firstTrace, firstSteps, trace, steps, rs, folds>>

NextSwap == SwapAt \/ SwapValue

SpecSwap == InitSwap /\ [][NextSwap]_vars

\* ------------------------------------------------------------- properties

\* x <= y takes the smaller, the larger of two elements.
BvMin(x, y) == IF BvGt(x, y) THEN y ELSE x

BvMax(x, y) == IF BvGt(x, y) THEN x ELSE y

\* s is in non-decreasing order.
IsSorted(s) == \A k \in DOMAIN s : (k + 1) \in DOMAIN s => ~BvGt(s[k], s[k + 1])

\* How many positions of s hold the value v.
Occurrences(s, v) == Cardinality({k \in DOMAIN s : s[k] = v})

\* s1 and s2 have the same length and the same values, each as many times.
IsPermutation(s1, s2) ==
    /\ DOMAIN s1 = DOMAIN s2
    /\ \A k \in DOMAIN s1 : Occurrences(s1, s1[k]) = Occurrences(s2, s1[k])

\* s1 is the beginning of s2.
IsPrefix(s1, s2) == Len(s1) <= Len(s2) /\ s1 = SubSeq(s2, 1, Len(s1))

\* C1: when ct_sort returns, the slice is in non-decreasing order and is a
\* permutation of the slice it was called on (same length, same values with
\* the same multiplicities): the result of a reference sort.  Every length up
\* to MaxLen, powers of two or not, duplicates or not, every element type.
C1_SortedPermutation ==
    pc = "done" => IsSorted(seq) /\ IsPermutation(seq, input)

\* A call on five elements, some of them equal, that had to move some.
C1_Witness ==
    /\ pc = "done"
    /\ call = 1
    /\ len = 5
    /\ seq # input
    /\ seq[0] # seq[4]
    /\ \E k1, k2 \in DOMAIN input : k1 # k2 /\ input[k1] = input[k2]

\* C2: whenever gt_mask has returned, what it returned is all ones if
\* self > other and zero otherwise (ties included); nothing else.
C2_GtMaskExact ==
    pc # "gt" => mask = IF BvGt(lhs, rhs) THEN OnesLike(lhs) ELSE ZeroLike(lhs)

\* A u64 comparison decided above the low bytes, across the sign bit.
C2_Witness ==
    /\ pc = "gt_done"
    /\ bits = 64
    /\ lhs[8] = 128
    /\ rhs[8] = 127
    /\ lhs[1] < rhs[1]
    /\ mask = OnesLike(lhs)

\* C3: a second call on a slice of the same length performs the trace of
\* compare-and-swap index pairs of the first call: at every moment what it
\* has done is the beginning of that trace, and on return it is all of it.
\* The second slice is either the sorted one or the all-zero one, so every
\* slice of a length has the trace of the all-zero slice of that length.
C3_SameTrace ==
    call = 2 =>
        /\ DOMAIN input = DOMAIN firstOut
        /\ IsPrefix(trace, firstTrace)
        /\ pc = "done" => trace = firstTrace

\* The second call has returned, on five zeros, after a first call on
\* something else.
C3_Witness ==
    /\ call = 2
    /\ pc = "done"
    /\ len = 5
    /\ input # firstOut
    /\ firstOut[0] # firstOut[4]
    /\ Len(trace) > 5

\* C4: ct_sort never panics.  len - p and len - q do not overflow
\* (p <= top < len, q <= top < len), every index it reads or writes is in
\* the slice, and the two positions of every compare-and-swap differ.
C4_NoFault ==
    /\ pc # "panic"
    /\ pc \in {"p", "first", "q", "scan", "fold"} => 0 < top /\ top < len
    /\ pc \in {"first", "q", "scan", "fold"} => 0 < p /\ p <= top
    /\ pc = "q" /\ QTake(q, p) => q <= top
    /\ pc \in {"scan", "fold"} => p < q /\ q <= top
    /\ pc = "first" /\ i < FirstEnd(p) /\ Selected(i, p) =>
          InBounds(i) /\ InBounds(i + p) /\ i # i + p
    /\ pc = "scan" /\ i < ScanEnd(q) /\ Selected(i, p) => InBounds(i + p)
    /\ pc = "fold" => InBounds(i + p)
    /\ pc = "fold" /\ RTake(r, p) => InBounds(i + r) /\ i + p # i + r
    /\ \A k \in DOMAIN trace :
          /\ trace[k][1] \in DOMAIN seq
          /\ trace[k][2] \in DOMAIN seq
          /\ trace[k][1] # trace[k][2]

\* A call on five elements that compared the last slot and folded.
C4_Witness ==
    /\ pc = "done"
    /\ len = 5
    /\ folds # <<>>
    /\ \E k \in DOMAIN trace : trace[k][2] = 4

\* The most steps a call on n elements may take.
StepBound(n) == 4 + 4 * n * n

\* C5: every call of ct_sort returns, for every length from 0; it never
\* takes more than StepBound(len) steps, and a second call on a slice of the
\* same length takes exactly as many steps as the first.
C5_Terminates ==
    /\ (pc = "call") ~> (pc = "done")
    /\ [](steps <= StepBound(len))
    /\ [](call = 2 /\ pc = "done" => steps = firstSteps)

\* Both calls on five elements have returned.
C5_Witness ==
    /\ call = 2
    /\ pc = "done"
    /\ len = 5
    /\ steps = firstSteps
    /\ steps > 20

\* C6: a call on a slice in non-decreasing order returns it unchanged,
\* and a call on what a call returned returns the same.
C6_Idempotent ==
    /\ pc = "done" /\ IsSorted(input) => seq = input
    /\ pc = "done" /\ call = 2 /\ input = firstOut => seq = firstOut

\* The second call was made on the five sorted elements of the first, not
\* all equal, and has returned.
C6_Witness ==
    /\ call = 2
    /\ pc = "done"
    /\ len = 5
    /\ input = firstOut
    /\ seq[0] # seq[4]
    /\ trace # <<>>

\* C7: on a slice of length 0 or 1 ct_sort compares nothing and changes
\* nothing; on a slice of length 2 it performs one compare-and-swap, of the
\* pair (0, 1), and nothing else.
C7_BoundaryLengths ==
    /\ len <= 1 => trace = <<>> /\ folds = <<>> /\ seq = input
    /\ len = 2 => /\ trace \in {<<>>, << <<0, 1>> >>}
                  /\ folds = <<>>
                  /\ pc = "done" => trace = << <<0, 1>> >>

\* A call on two elements that exchanged them.
C7_Witness ==
    /\ pc = "done"
    /\ len = 2
    /\ seq # input
    /\ trace = << <<0, 1>> >>

C9_MinMax ==
    /\ pc = "swapped_at" =>
          /\ seq[i] = BvMin(input[i], input[j])
          /\ seq[j] = BvMax(input[i], input[j])
          /\ (seq # input) = BvGt(input[i], input[j])
          /\ DOMAIN seq = DOMAIN input
          /\ \A k \in DOMAIN seq \ {i, j} : seq[k] = input[k]
    /\ pc = "swapped_value" =>
          /\ a = BvMin(lhs, input[j])
          /\ seq[j] = BvMax(lhs, input[j])
          /\ DOMAIN seq = DOMAIN input
          /\ \A k \in DOMAIN seq \ {j} : seq[k] = input[k]

\* minmax on u64 kept the smaller value and stored the larger, below slot i.
C9_Witness ==
    /\ pc = "swapped_value"
    /\ bits = 64
    /\ a # lhs
    /\ seq # input
    /\ j < i

\* The values p, q and r take: top, top/2, ..., 1.
Pow2s == {x \in 1..top : top % x = 0}

\* Where the scan for q starts: 0 for top, else where the scan for 2q ended.
RangeStart(qq) == IF qq = top THEN 0 ELSE len - 2 * qq

\* <<q, q/2, ..., 2p>>
RECURSIVE Halvings(_, _)
Halvings(qq, pp) == IF qq <= pp THEN <<>> ELSE <<qq>> \o Halvings(qq \div 2, pp)

\* The values of p whose q loop is over.
FoldedP ==
    CASE pc = "done" -> Pow2s
      [] pc = "q" /\ ~QTake(q, p) -> {x \in Pow2s : x >= p}
      [] pc \in {"p", "first", "q", "scan", "fold"} -> {x \in Pow2s : x > p}
      [] OTHER -> {}

\* How many times slot i + p was written back for this p and i.
FoldCount(pp, ii) ==
    Cardinality({k \in DOMAIN folds : folds[k][1] = pp /\ folds[k][3] = ii})

\* C10: within one p the scan for q starts where the scan for 2q ended (at 0
\* for q = top) and ends at len - q; each write-back is for an i with
\* i & p == 0 in the range of its q, after minmax with r = q, q/2, ..., 2p;
\* no i is written back twice for a p, none is for p = top, and once the q
\* loop of p is over the i that were are those below len - 2p with i & p == 0.
C10_FoldRanges ==
    /\ pc \in {"q", "scan", "fold"} => offset = RangeStart(q)
    /\ pc \in {"scan", "fold"} => offset <= i /\ i <= len - q
    /\ \A k \in DOMAIN folds :
          LET pp == folds[k][1]
              qq == folds[k][2]
              ii == folds[k][3]
          IN  /\ pp # top
              /\ pp < qq
              /\ RangeStart(qq) <= ii
              /\ ii < len - qq
              /\ BitAnd(ii, pp) = 0
              /\ folds[k][4] = Halvings(qq, pp)
    /\ \A pp \in Pow2s : \A ii \in DOMAIN seq : FoldCount(pp, ii) <= 1
    /\ \A pp \in FoldedP : \A ii \in DOMAIN seq :
          FoldCount(pp, ii) = IF ii < len - 2 * pp /\ BitAnd(ii, pp) = 0 THEN 1 ELSE 0

\* A call on five elements wrote back for p = 1 in the range of q = 4 and in
\* the range of q = 2.
C10_Witness ==
    /\ pc = "done"
    /\ len = 5
    /\ \E k1, k2 \in DOMAIN folds :
          /\ folds[k1][1] = 1 /\ folds[k1][2] = 4
          /\ folds[k2][1] = 1 /\ folds[k2][2] = 2

====
